---- MODULE Spec2Model ----
(***************************************************************************)
(* Model of cirq.devices.InsertionNoiseModel                                *)
(* (cirq-core/cirq/devices/insertion_noise_model.py).                       *)
(*                                                                         *)
(* An operation is a record [gate, qubits, tags]; a moment is the sequence  *)
(* of its operations (pairwise disjoint qubits); an OpIdentifier is a       *)
(* record [gate_type, qubits], qubits = {} meaning "any qubits"; the dict   *)
(* ops_added is the sequence of its items [id, op] in insertion order.      *)
(***************************************************************************)
EXTENDS Naturals, Sequences, FiniteSets

\* ------------------------------------------------------------------ bounds
\* Largest rule table of the general (rule selection) family of inputs.
MaxRules == 3
\* Largest moment (and rule table) of the per-qubit (packing) family.
MaxOps == 4

\* ------------------------------------------------- external collaborators
\* noise_utils.PHYSICAL_GATE_TAG: the marker an operation carries in its tags.
PHYSICAL_GATE_TAG == "physical_gate"

\* issubclass(g, h) over the gate types of the model: Sub derives from Base.
issubclass(g, h) == g = h \/ (g = "Sub" /\ h = "Base")

\* OpIdentifier.__contains__: `op in op_id`.
Contains(op, op_id) ==
    /\ (op_id.qubits = {} \/ op.qubits = op_id.qubits)
    /\ issubclass(op.gate, op_id.gate_type)

\* OpIdentifier.is_proper_subtype_of: a is strictly more specific than b in
\* the gate type or in the qubits, and not less specific in the other.
is_proper_subtype_of(a, b) ==
    LET more_specific_qubits == a.qubits # {} /\ b.qubits = {}
        more_specific_gate == a.gate_type # b.gate_type
                              /\ issubclass(a.gate_type, b.gate_type)
    IN /\ (more_specific_qubits \/ more_specific_gate)
       /\ (more_specific_qubits \/ a.qubits = b.qubits)
       /\ (more_specific_gate \/ a.gate_type = b.gate_type)

\* Whether op shares a qubit with an operation of the moment m.
Conflicts(m, op) == \E i \in 1..Len(m) : m[i].qubits \cap op.qubits # {}

\* Index of the earliest moment of c, from index i on, that op does not
\* conflict with; Len(c) + 1 when there is none.
RECURSIVE FirstFit(_, _, _)
FirstFit(c, op, i) ==
    IF i > Len(c) THEN i
    ELSE IF ~Conflicts(c[i], op) THEN i
    ELSE FirstFit(c, op, i + 1)

\* Variant: op goes right after the last moment it conflicts with, also when
\* an earlier moment has room for it.
PlaceAfterLastConflict(c, op) ==
    LET hit == {i \in 1..Len(c) : Conflicts(c[i], op)}
        k == IF hit = {} THEN 1 ELSE 1 + (CHOOSE i \in hit : \A j \in hit : j <= i)
    IN IF k > Len(c) THEN Append(c, <<op>>)
       ELSE [c EXCEPT ![k] = Append(c[k], op)]

\* One insertion of circuits.Circuit(ops): op goes to the earliest moment it
\* fits in, a new moment being opened at the end when it fits in none.
Place(c, op) ==
    LET k == FirstFit(c, op, 1)
    IN IF k > Len(c) THEN Append(c, <<op>>)
       ELSE [c EXCEPT ![k] = Append(c[k], op)]

RECURSIVE PackFrom(_, _, _)
PackFrom(c, ops, i) ==
    IF i > Len(ops) THEN c ELSE PackFrom(Place(c, ops[i]), ops, i + 1)

\* circuits.Circuit(noise_ops).moments
Circuit(ops) == PackFrom(<<>>, ops, 1)

\* ------------------------------------------------------ builtin dict/list
\* Position of key k in the item sequence d, 0 when absent.
RECURSIVE KeyIndex(_, _, _)
KeyIndex(d, k, i) ==
    IF i > Len(d) THEN 0
    ELSE IF d[i].id = k THEN i
    ELSE KeyIndex(d, k, i + 1)

\* d[k] of a dict (k is a key of d).
DictGet(d, k) == d[KeyIndex(d, k, 1)].op

\* d[k] = v of a dict: a present key keeps its position, a new one is last.
DictSet(d, k, v) ==
    LET j == KeyIndex(d, k, 1)
    IN IF j = 0 THEN Append(d, [id |-> k, op |-> v])
       ELSE [d EXCEPT ![j] = [id |-> k, op |-> v]]

RECURSIVE DictFrom(_, _, _)
DictFrom(d, pairs, i) ==
    IF i > Len(pairs) THEN d
    ELSE DictFrom(DictSet(d, pairs[i][1], pairs[i][2]), pairs, i + 1)

\* Variant: the items of the dict in the reverse of the order given.
DictReversed(pairs) ==
    [i \in 1..Len(pairs) |->
        [id |-> pairs[Len(pairs) + 1 - i][1], op |-> pairs[Len(pairs) + 1 - i][2]]]

\* dict(pairs)
dict(pairs) == DictFrom(<<>>, pairs, 1)

\* list(d.items())
items(d) == [i \in 1..Len(d) |-> <<d[i].id, d[i].op>>]

\* ---------------------------------------------------------- noisy_moment
\* Variant: no filter on the tag.
CandidateOpsAll(require_tag, moment) == moment

\* candidate_ops: the operations of the moment that pass the tag filter.
candidate_ops(require_tag, moment) ==
    SelectSeq(moment, LAMBDA op : (~require_tag) \/ PHYSICAL_GATE_TAG \in op.tags)

\* candidate_ids: the keys of ops_added that contain op, in dict order.
candidate_ids(added, op) ==
    LET keys == [i \in 1..Len(added) |-> added[i].id]
    IN SelectSeq(keys, LAMBDA op_id : Contains(op, op_id))

\* The scan of candidate_ids from index i on; match_id is <<>> for None and
\* <<op_id>> otherwise.
\* Variant: the first matching key is kept, whatever comes later.
RECURSIVE ScanFirst(_, _, _)
ScanFirst(ids, match_id, i) ==
    IF i > Len(ids) THEN match_id
    ELSE IF match_id = <<>>
         THEN ScanFirst(ids, <<ids[i]>>, i + 1)
         ELSE ScanFirst(ids, match_id, i + 1)

\* Variant: a later key replaces the match unless the match is a proper subtype of it.
RECURSIVE ScanLast(_, _, _)
ScanLast(ids, match_id, i) ==
    IF i > Len(ids) THEN match_id
    ELSE IF match_id = <<>> \/ ~is_proper_subtype_of(match_id[1], ids[i])
         THEN ScanLast(ids, <<ids[i]>>, i + 1)
         ELSE ScanLast(ids, match_id, i + 1)

RECURSIVE Scan(_, _, _)
Scan(ids, match_id, i) ==
    IF i > Len(ids) THEN match_id
    ELSE IF match_id = <<>> \/ is_proper_subtype_of(ids[i], match_id[1])
         THEN Scan(ids, <<ids[i]>>, i + 1)
         ELSE Scan(ids, match_id, i + 1)

\* Variant: match_id by the first-key scan.
MatchIdFirst(added, op) == ScanFirst(candidate_ids(added, op), <<>>, 1)

\* Variant: match_id by the later-key scan.
MatchIdLast(added, op) == ScanLast(candidate_ids(added, op), <<>>, 1)

\* match_id after the inner loop for the candidate op.
MatchId(added, op) == Scan(candidate_ids(added, op), <<>>, 1)

\* The body of the outer loop over the candidates from index i on.
RECURSIVE Collect(_, _, _, _)
Collect(added, cands, acc, i) ==
    IF i > Len(cands) THEN acc
    ELSE LET match_id == MatchId(added, cands[i])
         IN IF match_id # <<>>
            THEN Collect(added, cands, Append(acc, DictGet(added, match_id[1])), i + 1)
            ELSE Collect(added, cands, acc, i + 1)

\* Variant: a sequence without its repeated entries.
RECURSIVE Dedup(_, _, _)
Dedup(s, acc, i) ==
    IF i > Len(s) THEN acc
    ELSE IF \E j \in 1..Len(acc) : acc[j] = s[i]
         THEN Dedup(s, acc, i + 1)
         ELSE Dedup(s, Append(acc, s[i]), i + 1)

\* Variant: a replacement is collected once however many candidates select it.
NoiseOpsDedup(added, require_tag, moment) ==
    Dedup(Collect(added, candidate_ops(require_tag, moment), <<>>, 1), <<>>, 1)

\* noise_ops when the outer loop has ended.
noise_ops(added, require_tag, moment) ==
    Collect(added, candidate_ops(require_tag, moment), <<>>, 1)

\* Variant: prepend is ignored.
NoisyMomentAppendOnly(added, pre, require_tag, moment) ==
    LET ops == noise_ops(added, require_tag, moment)
    IN IF ops = <<>> THEN <<moment>> ELSE <<moment>> \o Circuit(ops)

\* Variant: all noise operations in a single moment.
NoisyMomentSingle(added, pre, require_tag, moment) ==
    LET ops == noise_ops(added, require_tag, moment)
    IN IF ops = <<>> THEN <<moment>>
       ELSE IF pre THEN <<ops, moment>> ELSE <<moment, ops>>

\* Variant: one moment per noise operation.
NoisyMomentOnePerStep(added, pre, require_tag, moment) ==
    LET ops == noise_ops(added, require_tag, moment)
        steps == [n \in 1..Len(ops) |-> <<ops[n]>>]
    IN IF ops = <<>> THEN <<moment>>
       ELSE IF pre THEN steps \o <<moment>> ELSE <<moment>> \o steps

\* InsertionNoiseModel.noisy_moment: the returned list of moments.
noisy_moment(added, pre, require_tag, moment) ==
    LET ops == noise_ops(added, require_tag, moment)
        noise_steps == Circuit(ops)
    IN IF ops = <<>> THEN <<moment>>
       ELSE IF pre THEN noise_steps \o <<moment>>
       ELSE <<moment>> \o noise_steps

\* ------------------------------------------------ _json_dict_ and back
\* InsertionNoiseModel._json_dict_
json_dict(added, pre, require_tag) ==
    [ops_added |-> items(added), prepend |-> pre, require_physical_tag |-> require_tag]

\* Variant: the table is rebuilt in reverse order.
FromJsonDictReversed(d) ==
    [ops_added |-> DictReversed(d.ops_added), prepend |-> d.prepend,
     require_physical_tag |-> d.require_physical_tag]

\* InsertionNoiseModel._from_json_dict_
from_json_dict(d) ==
    [ops_added |-> dict(d.ops_added), prepend |-> d.prepend,
     require_physical_tag |-> d.require_physical_tag]

\* ------------------------------------------------------------------ state
\* models: the InsertionNoiseModel instances alive, each a record of its
\*         dataclass fields (models[1] is the constructed one, models[2]
\*         the one _from_json_dict_ returned);
\* moment: the moment handed to noisy_moment;
\* results: per instance, what noisy_moment returned (<<>> before the call);
\* collected: per instance, the local noise_ops when noisy_moment returned;
\* exported: the dicts _json_dict_ returned so far (at most one).
VARIABLES models, moment, results, collected, exported

vars == <<models, moment, results, collected, exported>>

Op(g, qs, ts) == [gate |-> g, qubits |-> qs, tags |-> ts]

OpId(g, qs) == [gate_type |-> g, qubits |-> qs]

Item(k, v) == [id |-> k, op |-> v]

\* Sequences of 0..n elements of S.
SeqUpTo(S, n) == UNION {[1..k -> S] : k \in 0..n}

UniqueKeys(d) == \A i, j \in 1..Len(d) : d[i].id = d[j].id => i = j

\* General family: any table of at most MaxRules rules over the four
\* identifiers of two gate types with and without qubits, and a moment of at
\* most two operations: any operation on qubit 0, then a Sub one on qubit 1.
SelectIds == {OpId(g, qs) : g \in {"Base", "Sub"}, qs \in {{}, {0}}}

SelectNoise == {Op("NoiseA", {0}, {}), Op("NoiseB", {0, 1}, {})}

SelectTables ==
    {d \in SeqUpTo({Item(k, v) : k \in SelectIds, v \in SelectNoise}, MaxRules) :
        UniqueKeys(d)}

OpsOn(q, gates) == {Op(g, {q}, ts) : g \in gates, ts \in {{}, {PHYSICAL_GATE_TAG}}}

SelectMoments ==
    {<<>>} \cup {<<a>> : a \in OpsOn(0, {"Base", "Sub"})}
           \cup {<<a, b>> : a \in OpsOn(0, {"Base", "Sub"}), b \in OpsOn(1, {"Sub"})}

\* Per-qubit family: k tagged operations on qubits 0..k-1, each with a rule of
\* its own, so that every sequence of k replacement operations is collected.
PackNoise ==
    {Op("Noise", qs, {}) : qs \in {{0}, {2}, {0, 1}, {1, 2}}}

PackMoment(k) == [i \in 1..k |-> Op("Base", {i - 1}, {PHYSICAL_GATE_TAG})]

PackTables(k) ==
    {[i \in 1..k |-> Item(OpId("Base", {i - 1}), r[i])] : r \in [1..k -> PackNoise]}

Model(added, pre, require_tag) ==
    [ops_added |-> added, prepend |-> pre, require_physical_tag |-> require_tag]

InitSelect ==
    /\ models \in {<<Model(d, pre, rt)>> : d \in SelectTables, pre \in BOOLEAN, rt \in BOOLEAN}
    /\ moment \in SelectMoments

InitPack ==
    \E k \in 1..MaxOps :
        /\ models \in {<<Model(d, pre, TRUE)>> : d \in PackTables(k), pre \in BOOLEAN}
        /\ moment = PackMoment(k)

Init ==
    /\ InitSelect \/ InitPack
    /\ results = <<<<>>>>
    /\ collected = <<<<>>>>
    /\ exported = <<>>

\* self.noisy_moment(moment, system_qubits) on instance i.
NoisyMoment(i) ==
    /\ results[i] = <<>>
    /\ results' = [results EXCEPT ![i] =
           noisy_moment(models[i].ops_added, models[i].prepend,
                        models[i].require_physical_tag, moment)]
    /\ collected' = [collected EXCEPT ![i] =
           noise_ops(models[i].ops_added, models[i].require_physical_tag, moment)]
    /\ UNCHANGED <<models, moment, exported>>

\* self._json_dict_() on the constructed instance.
JsonDict ==
    /\ exported = <<>>
    /\ exported' = <<json_dict(models[1].ops_added, models[1].prepend,
                               models[1].require_physical_tag)>>
    /\ UNCHANGED <<models, moment, results, collected>>

\* InsertionNoiseModel._from_json_dict_(**exported[1])
FromJsonDict ==
    /\ exported # <<>>
    /\ Len(models) = 1
    /\ models' = Append(models, from_json_dict(exported[1]))
    /\ results' = Append(results, <<>>)
    /\ collected' = Append(collected, <<>>)
    /\ UNCHANGED <<moment, exported>>

Next ==
    \/ \E i \in 1..Len(models) : NoisyMoment(i)
    \/ JsonDict
    \/ FromJsonDict

Spec == Init /\ [][Next]_vars

\* ----------------------------------------------------------------- claims
\* Instances on which noisy_moment has returned.
Returned == {i \in 1..Len(models) : results[i] # <<>>}

Added(i) == models[i].ops_added

\* The filter on the marker, stated on one operation.
PassesFilter(i, op) ==
    models[i].require_physical_tag => PHYSICAL_GATE_TAG \in op.tags

\* Positions in the table of the patterns that match op.
Matches(d, op) == {k \in 1..Len(d) : Contains(op, d[k].id)}

\* Matching patterns no other matching pattern is a proper subtype of.
NonDominated(d, op) ==
    {k \in Matches(d, op) :
        \A j \in Matches(d, op) : ~is_proper_subtype_of(d[j].id, d[k].id)}

PairwiseIncomparable(d, K) ==
    \A j, k \in K : ~is_proper_subtype_of(d[j].id, d[k].id)

Min(S) == CHOOSE x \in S : \A y \in S : x <= y

\* Positions in the moment of the operations that pass the filter and match
\* some pattern, in the order of the moment.
Triggering(i) ==
    SelectSeq([p \in 1..Len(moment) |-> p],
              LAMBDA p : PassesFilter(i, moment[p]) /\ Matches(Added(i), moment[p]) # {})

\* The noise steps of a returned list, by position.
NoiseStepsOf(r, pre) == IF pre THEN SubSeq(r, 1, Len(r) - 1) ELSE Tail(r)

NoiseSteps(i) == NoiseStepsOf(results[i], models[i].prepend)

Swapped(d, a, b) == [d EXCEPT ![a] = d[b], ![b] = d[a]]

\* C1: the replacement emitted for a candidate is bound to a pattern that
\* matches it and that no other matching pattern is a proper subtype of; when
\* exactly two patterns A, B match and A is a proper subtype of B, it is A's,
\* in either declaration order.
C1_MostSpecific ==
    \A i \in Returned :
        LET d == Added(i)
            t == Triggering(i)
        IN /\ Len(collected[i]) = Len(t)
           /\ \A n \in 1..Len(t) :
                LET op == moment[t[n]]
                IN /\ \E k \in NonDominated(d, op) : collected[i][n] = d[k].op
                   /\ \A a, b \in Matches(d, op) :
                        (Matches(d, op) = {a, b} /\ is_proper_subtype_of(d[a].id, d[b].id))
                            => collected[i][n] = d[a].op

\* A returned call whose candidate matches three patterns, the most specific
\* of which is declared last and has a replacement of its own.
C1_Witness ==
    \E i \in Returned :
        /\ Len(Triggering(i)) = 1
        /\ LET d == Added(i)
               op == moment[Triggering(i)[1]]
           IN /\ Cardinality(Matches(d, op)) >= 3
              /\ \E k \in NonDominated(d, op) :
                    /\ k = Len(d)
                    /\ d[k].op # d[1].op
                    /\ collected[i] = <<d[k].op>>
                    /\ is_proper_subtype_of(d[k].id, d[1].id)

\* C2: when the patterns matching a candidate are pairwise incomparable, the
\* replacement of the earliest declared of them is emitted; with exactly two
\* of them, the table that declares the two in the opposite order emits the
\* other one's replacement.
C2_DeclarationOrder ==
    \A i \in Returned :
        LET d == Added(i)
            t == Triggering(i)
        IN /\ Len(collected[i]) = Len(t)
           /\ \A n \in 1..Len(t) :
                LET op == moment[t[n]]
                    K == Matches(d, op)
                IN PairwiseIncomparable(d, K) =>
                    /\ collected[i][n] = d[Min(K)].op
                    /\ \A a, b \in K :
                        (K = {a, b} /\ a < b /\ Len(t) = 1) =>
                            noisy_moment(Swapped(d, a, b), FALSE, models[i].require_physical_tag, moment)
                                = <<moment, <<d[b].op>>>>

C2_Witness ==
    \E i \in Returned :
        /\ Len(Triggering(i)) = 1
        /\ ~models[i].prepend
        /\ LET d == Added(i)
               K == Matches(d, moment[Triggering(i)[1]])
           IN /\ Cardinality(K) = 2
              /\ PairwiseIncomparable(d, K)
              /\ \E a, b \in K : a < b /\ d[a].op # d[b].op
                                 /\ results[i] = <<moment, <<d[a].op>>>>

\* C3: when a candidate matches, the returned list holds the original moment
\* exactly once, last with prepend and first without, and the noise steps are
\* the same, in the same order, as with the opposite value of prepend.
C3_PrependAppend ==
    \A i \in Returned :
        Triggering(i) # <<>> =>
            LET r == results[i]
                pre == models[i].prepend
                other == noisy_moment(Added(i), ~pre, models[i].require_physical_tag, moment)
            IN /\ Len(r) >= 2
               /\ Cardinality({p \in 1..Len(r) : r[p] = moment}) = 1
               /\ pre => r[Len(r)] = moment
               /\ ~pre => r[1] = moment
               /\ NoiseStepsOf(r, pre) = NoiseStepsOf(other, ~pre)
               /\ other[IF pre THEN 1 ELSE Len(other)] = moment

C3_Witness ==
    \E i \in Returned :
        /\ models[i].prepend
        /\ Len(results[i]) = 3
        /\ results[i][3] = moment
        /\ results[i][1] # results[i][2]

\* C4: noisy_moment returns the one-element list of the original moment
\* exactly when no operation that passes the marker filter matches a pattern.
C4_Passthrough ==
    \A i \in Returned :
        /\ results[i] = <<moment>>
            <=> ~\E p \in 1..Len(moment) :
                    PassesFilter(i, moment[p]) /\ Matches(Added(i), moment[p]) # {}
        /\ results[i] # <<moment>> => Len(results[i]) >= 2
        /\ Added(i) = <<>> => results[i] = <<moment>>

\* With the marker required, an operation without it that a pattern matches
\* has triggered nothing.
C4_Witness ==
    \E i \in Returned :
        /\ models[i].require_physical_tag
        /\ results[i] = <<moment>>
        /\ \E p \in 1..Len(moment) :
            /\ PHYSICAL_GATE_TAG \notin moment[p].tags
            /\ Matches(Added(i), moment[p]) # {}

\* C5: the operations of every noise step returned have pairwise disjoint
\* qubit sets.
C5_ConflictFree ==
    \A i \in Returned :
        \A s \in 1..Len(NoiseSteps(i)) :
            LET m == NoiseSteps(i)[s]
            IN \A a, b \in 1..Len(m) : a # b => m[a].qubits \cap m[b].qubits = {}

\* The same replacement collected twice, and a step of two operations.
C5_Witness ==
    \E i \in Returned :
        /\ \E a, b \in 1..Len(collected[i]) : a # b /\ collected[i][a] = collected[i][b]
        /\ \E s \in 1..Len(NoiseSteps(i)) : Len(NoiseSteps(i)[s]) >= 2
        /\ Len(NoiseSteps(i)) >= 2

\* Whether the operations ops can be put into k steps of pairwise disjoint
\* operations.
Packable(ops, k) ==
    \E f \in [1..Len(ops) -> 1..k] :
        \A a, b \in 1..Len(ops) :
            (a # b /\ f[a] = f[b]) => ops[a].qubits \cap ops[b].qubits = {}

\* C6 as stated: the number of noise steps is the least number of conflict-free
\* steps the collected operations can be put into.
C6_Minimal ==
    \A i \in Returned :
        collected[i] # <<>> =>
            /\ Packable(collected[i], Len(NoiseSteps(i)))
            /\ ~Packable(collected[i], Len(NoiseSteps(i)) - 1)

\* C6 as amended: the noise steps are a conflict-free packing of the collected
\* operations (so never fewer than the least number), and their number is the
\* least one when every collected operation acts on a single qubit.
C6_MinimalSingleQubit ==
    \A i \in Returned :
        collected[i] # <<>> =>
            /\ Packable(collected[i], Len(NoiseSteps(i)))
            /\ (\A n \in 1..Len(collected[i]) : Cardinality(collected[i][n].qubits) = 1)
                => ~Packable(collected[i], Len(NoiseSteps(i)) - 1)

C6_Witness ==
    \E i \in Returned :
        /\ Len(collected[i]) >= 3
        /\ \A n \in 1..Len(collected[i]) : Cardinality(collected[i][n].qubits) = 1
        /\ Len(NoiseSteps(i)) = 2

\* C7 as stated: when a candidate matches, one or two noise steps are
\* inserted, so that the returned list has two or three moments.
C7_OneOrTwoSteps ==
    \A i \in Returned :
        Triggering(i) # <<>> => Len(results[i]) \in {2, 3}

\* C8: the instance rebuilt from the exported dict has the same flags and the
\* same (pattern, replacement) pairs in the same order, and its noisy_moment
\* returns what the exporting instance's returns.
C8_RoundTrip ==
    Len(models) = 2 =>
        /\ exported = <<json_dict(Added(1), models[1].prepend, models[1].require_physical_tag)>>
        /\ models[2].prepend = models[1].prepend
        /\ models[2].require_physical_tag = models[1].require_physical_tag
        /\ Len(Added(2)) = Len(Added(1))
        /\ \A k \in 1..Len(Added(1)) :
            Added(2)[k].id = Added(1)[k].id /\ Added(2)[k].op = Added(1)[k].op
        /\ Returned = {1, 2} => results[2] = results[1]

\* Both instances have returned, on a moment whose result the declaration
\* order decides.
C8_Witness ==
    /\ Returned = {1, 2}
    /\ Len(Triggering(1)) = 1
    /\ LET d == Added(1)
           K == Matches(d, moment[Triggering(1)[1]])
       IN /\ Cardinality(K) = 2
          /\ PairwiseIncomparable(d, K)
          /\ \E a, b \in K : d[a].op # d[b].op
    /\ Len(results[2]) = 2

\* The steps first fit assigns to ops[1..n], given as the sequence of their
\* indices: each operation gets the least step that holds no earlier operation
\* sharing a qubit with it.
RECURSIVE StepsOf(_, _)
StepsOf(ops, n) ==
    IF n = 0 THEN <<>>
    ELSE LET before == StepsOf(ops, n - 1)
         IN Append(before,
                Min({s \in 1..n :
                        \A j \in 1..(n - 1) :
                            before[j] = s => ops[j].qubits \cap ops[n].qubits = {}}))

C10_OnePerCandidate ==
    \A i \in Returned :
        LET d == Added(i)
            t == Triggering(i)
        IN /\ Len(collected[i]) = Len(t)
           /\ \A n \in 1..Len(t) :
                LET op == moment[t[n]]
                    won == MatchId(d, op)
                IN /\ won # <<>>
                   /\ \E k \in NonDominated(d, op) :
                        d[k].id = won[1] /\ collected[i][n] = d[k].op

\* Two candidates on different qubits that select the same pattern: two
\* copies of its replacement, on the replacement's own qubits.
C10_Witness ==
    \E i \in Returned :
        /\ Len(moment) = 2
        /\ Len(collected[i]) = 2
        /\ collected[i][1] = collected[i][2]
        /\ Len(Added(i)) = 1
        /\ collected[i][1] = Added(i)[1].op
        /\ collected[i][1].qubits # moment[2].qubits

====
